---- MODULE Spec2Model ----
(***************************************************************************)
(* The group/series aggregation engine of canada_spends_dashboard:         *)
(* aggregate_data of src/src/build_dashboards.py with its helpers          *)
(* extract_year, to_number and row_matches_filter, and the aggregate_data  *)
(* of src/update_data.py with its extract_year and row_matches_mapping.    *)
(*                                                                         *)
(* A Python str is a sequence of one-character strings, so that slicing,   *)
(* searching, lower-casing and code-point comparison are computed.  A      *)
(* record (row) is a function from field names to scalars; a field the     *)
(* row lacks is a name outside its DOMAIN.  The fields read as keys hold   *)
(* str scalars; the value field holds a tagged scalar (native number or    *)
(* str).  A float is tagged as finite, nan or inf; a finite float is an     *)
(* exact decimal n / 10^d.  The sums of the aggregation are taken over     *)
(* whole finite floats, which add as integers do.                          *)
(***************************************************************************)
EXTENDS Integers, Sequences, FiniteSets, TLC

VARIABLES rows, config, pc, result, prev, arg, out

vars == <<rows, config, pc, result, prev, arg, out>>

(***************************************************************************)
(* Python str primitives                                                   *)
(***************************************************************************)

Digits == {"0", "1", "2", "3", "4", "5", "6", "7", "8", "9"}

\* ord(c) on the characters the model's strings are made of.
ord(c) ==
    CASE c = " " -> 32 [] c = "$" -> 36 [] c = "+" -> 43 [] c = "," -> 44
      [] c = "-" -> 45 [] c = "/" -> 47
      [] c = "0" -> 48 [] c = "1" -> 49 [] c = "2" -> 50 [] c = "3" -> 51
      [] c = "4" -> 52 [] c = "5" -> 53 [] c = "6" -> 54 [] c = "7" -> 55
      [] c = "8" -> 56 [] c = "9" -> 57
      [] c = "A" -> 65 [] c = "D" -> 68 [] c = "E" -> 69 [] c = "H" -> 72
      [] c = "N" -> 78 [] c = "T" -> 84 [] c = "U" -> 85
      [] c = "a" -> 97 [] c = "d" -> 100 [] c = "e" -> 101 [] c = "h" -> 104
      [] c = "k" -> 107 [] c = "l" -> 108 [] c = "n" -> 110 [] c = "o" -> 111
      [] c = "t" -> 116 [] c = "w" -> 119 [] c = "x" -> 120

\* One character of str.lower().
lower_char(c) ==
    CASE c = "A" -> "a" [] c = "D" -> "d" [] c = "E" -> "e" [] c = "F" -> "f"
      [] c = "H" -> "h" [] c = "I" -> "i" [] c = "N" -> "n" [] c = "T" -> "t"
      [] OTHER -> c

\* str.lower()
lower(s) == [i \in 1..Len(s) |-> lower_char(s[i])]

\* `item in value` on two str: item occurs as a contiguous substring.
str_contains(value, item) ==
    \E i \in 0..(Len(value) - Len(item)) :
        \A j \in 1..Len(item) : value[i + j] = item[j]

\* str.replace(ch, ''): every occurrence of one character removed.
remove_char(s, ch) == SelectSeq(s, LAMBDA c : c # ch)

\* str.isspace() on the model's alphabet: the space and the tab.
Whitespace == {" ", "\t"}

\* str.strip()
RECURSIVE lstrip(_)
lstrip(s) == IF s # <<>> /\ Head(s) \in Whitespace THEN lstrip(Tail(s)) ELSE s

RECURSIVE rstrip(_)
rstrip(s) ==
    IF s # <<>> /\ s[Len(s)] \in Whitespace
    THEN rstrip(SubSeq(s, 1, Len(s) - 1)) ELSE s

strip(s) == rstrip(lstrip(s))

\* The value of a non-empty run of decimal digits.
RECURSIVE digits_value(_)
digits_value(s) ==
    IF s = <<>> THEN 0
    ELSE 10 * digits_value(SubSeq(s, 1, Len(s) - 1)) + (ord(s[Len(s)]) - ord("0"))

\* The literal forms int() and float() share on the model's alphabet:
\* surrounding whitespace, an optional sign, one or more digits.
is_int_literal(s) ==
    LET t == strip(s)
        u == IF t # <<>> /\ Head(t) \in {"+", "-"} THEN Tail(t) ELSE t
    IN  u # <<>> /\ \A i \in 1..Len(u) : u[i] \in Digits

int_literal_value(s) ==
    LET t == strip(s)
        neg == t # <<>> /\ Head(t) = "-"
        u == IF t # <<>> /\ Head(t) \in {"+", "-"} THEN Tail(t) ELSE t
    IN  IF neg THEN 0 - digits_value(u) ELSE digits_value(u)

\* x < y on two str: comparison by code point, a proper prefix first.
RECURSIVE str_less(_, _)
str_less(x, y) ==
    IF y = <<>> THEN FALSE
    ELSE IF x = <<>> THEN TRUE
    ELSE IF Head(x) # Head(y) THEN ord(Head(x)) < ord(Head(y))
    ELSE str_less(Tail(x), Tail(y))

(***************************************************************************)
(* Scalars of the value field                                              *)
(***************************************************************************)

Num(n) == [t |-> "num", n |-> n, s |-> <<>>]
Str(s) == [t |-> "str", n |-> 0, s |-> s]

\* None as a value; the native floats nan and +-inf (sign is 1 or -1); a
\* native int beyond the range of float, such as 10**400 (sign times it).
NoneValue       == [t |-> "none", n |-> 0, s |-> <<>>]
FloatNaN        == [t |-> "nan", n |-> 0, s |-> <<>>]
FloatInf(sign)  == [t |-> "inf", n |-> sign, s |-> <<>>]
HugeInt(sign)   == [t |-> "hugeint", n |-> sign, s |-> <<>>]

(***************************************************************************)
(* float                                                                   *)
(***************************************************************************)

\* The float n / 10^d, with d = 0 or n not a multiple of 10.
RECURSIVE Fin(_, _)
Fin(n, d) ==
    IF d > 0 /\ n % 10 = 0 THEN Fin(n \div 10, d - 1)
    ELSE [k |-> "fin", n |-> n, d |-> d]

NaN == [k |-> "nan", n |-> 0, d |-> 0]

Inf(sign) == [k |-> "inf", n |-> sign, d |-> 0]

\* The call did not return: it raised the exception named.
Raised(exception) == [k |-> exception, n |-> 0, d |-> 0]

\* float(s) on a str of the model's alphabet, which has no exponent marker
\* and no underscore: blanks stripped, an optional sign, then nan, inf,
\* infinity in any case, or digits with at most one point and at least one
\* digit.  Anything else raises ValueError.
float(s) ==
    LET t    == strip(s)
        sign == IF t # <<>> /\ Head(t) = "-" THEN 0 - 1 ELSE 1
        u    == IF t # <<>> /\ Head(t) \in {"+", "-"} THEN Tail(t) ELSE t
        dots == {i \in 1..Len(u) : u[i] = "."}
        mant == remove_char(u, ".")
    IN  IF lower(u) = <<"n", "a", "n">> THEN NaN
        ELSE IF lower(u) \in {<<"i", "n", "f">>,
                              <<"i", "n", "f", "i", "n", "i", "t", "y">>}
        THEN Inf(sign)
        ELSE IF /\ Cardinality(dots) <= 1
                /\ mant # <<>>
                /\ \A i \in 1..Len(mant) : mant[i] \in Digits
        THEN LET p == IF dots = {} THEN Len(u) ELSE CHOOSE i \in dots : TRUE
             IN  Fin(sign * digits_value(mant), Len(u) - p)
        ELSE Raised("ValueError")

\* The integer a whole finite float holds; no other float reaches a sum of
\* the aggregation.
whole(x) == CASE x.k = "fin" /\ x.d = 0 -> x.n

\* None, as extract_year returns it: no str of the model equals it.
None == <<"<None>">>

\* dict.get(key, default)
Get(row, field, default) == IF field \in DOMAIN row THEN row[field] ELSE default

\* The empty dict; `not d` is true of it as it is of None.
EmptyDict == [k \in {} |-> 0]

(***************************************************************************)
(* extract_year, to_number, row_matches_filter                             *)
(***************************************************************************)

\* The pattern (\d{4}) matches at position i of s: any four digits.
digits4_match_at(s, i) ==
    /\ i + 3 <= Len(s)
    /\ \A j \in 0..3 : s[i + j] \in Digits

\* The pattern with a third century: (19\d{2}|20\d{2}|21\d{2}).
year_match_at_to_2199(s, i) ==
    /\ i + 3 <= Len(s)
    /\ s[i] \in {"1", "2"}
    /\ s[i] = "1" => s[i + 1] = "9"
    /\ s[i] = "2" => s[i + 1] \in {"0", "1"}
    /\ s[i + 2] \in Digits
    /\ s[i + 3] \in Digits

\* The pattern (19\d{2}|20\d{2}) matches at position i of s.
year_match_at(s, i) ==
    /\ i + 3 <= Len(s)
    /\ s[i] \in {"1", "2"}
    /\ s[i] = "1" => s[i + 1] = "9"
    /\ s[i] = "2" => s[i + 1] = "0"
    /\ s[i + 2] \in Digits
    /\ s[i + 3] \in Digits

extract_year(value) ==
    IF value = <<>> THEN None
    ELSE LET value_str == strip(value)
             hits == {i \in 1..Len(value_str) : year_match_at(value_str, i)}
         IN  IF hits # {}
             THEN LET i == CHOOSE k \in hits : \A m \in hits : k <= m
                  IN  SubSeq(value_str, i, i + 3)
             ELSE None

\* isinstance(value, (int, float)) sends a native number to float(value),
\* which raises OverflowError on an int beyond the float range; `not value`
\* is true of None and of the empty str; `except ValueError` turns a str
\* that float() rejects into 0.0.
to_number(value) ==
    IF value.t = "num" THEN Fin(value.n, 0)
    ELSE IF value.t = "nan" THEN NaN
    ELSE IF value.t = "inf" THEN Inf(value.n)
    ELSE IF value.t = "hugeint" THEN Raised("OverflowError")
    ELSE IF value.t = "none" \/ value.s = <<>> THEN Fin(0, 0)
    ELSE LET cleaned == remove_char(remove_char(remove_char(value.s, "$"), ","), " ")
             parsed  == float(cleaned)
         IN  IF parsed.k = "ValueError" THEN Fin(0, 0) ELSE parsed

\* The substring test without .lower() on either side.
row_matches_filter_cased(row, filter_config) ==
    IF filter_config = EmptyDict THEN TRUE
    ELSE LET field == Get(filter_config, "field", "")
             value == Get(row, field, <<>>)
         IN  /\ "include" \in DOMAIN filter_config => value \in filter_config["include"]
             /\ "contains" \in DOMAIN filter_config =>
                    \E item \in filter_config["contains"] : str_contains(value, item)

row_matches_filter(row, filter_config) ==
    IF filter_config = EmptyDict THEN TRUE
    ELSE LET field == Get(filter_config, "field", "")
             value == Get(row, field, <<>>)
         IN  /\ "include" \in DOMAIN filter_config => value \in filter_config["include"]
             /\ "contains" \in DOMAIN filter_config =>
                    \E item \in filter_config["contains"] :
                        str_contains(lower(value), lower(item))

(***************************************************************************)
(* dict, set and sorted                                                    *)
(***************************************************************************)

\* A dict (and a defaultdict) keeps its keys in insertion order: keys is that
\* order, val the mapping.
NewDict == [keys |-> <<>>, val |-> EmptyDict]

DictHas(d, k) == k \in DOMAIN d.val

DictGet(d, k, default) == IF DictHas(d, k) THEN d.val[k] ELSE default

DictSet(d, k, v) ==
    [keys |-> IF DictHas(d, k) THEN d.keys ELSE Append(d.keys, k),
     val  |-> [x \in (DOMAIN d.val) \cup {k} |-> IF x = k THEN v ELSE d.val[x]]]

Range(seq) == {seq[i] : i \in 1..Len(seq)}

\* The orders in which iterating a set can yield its elements: the order of a
\* set of str follows the per-process string hash, which the program does not fix.
IterationOrders(S) ==
    {seq \in [1..Cardinality(S) -> S] : \A i, j \in 1..Cardinality(S) : seq[i] = seq[j] => i = j}

\* sorted(seq, key=...): ascending in key[x] and stable, so elements of equal
\* key keep the order they have in seq.
RECURSIVE sorted(_, _)
sorted(seq, key) ==
    IF seq = <<>> THEN <<>>
    ELSE LET n    == Len(seq)
             x    == seq[n]
             srt  == sorted(SubSeq(seq, 1, n - 1), key)
             k    == Cardinality({i \in 1..(n - 1) : key[srt[i]] <= key[x]})
         IN  SubSeq(srt, 1, k) \o <<x>> \o SubSeq(srt, k + 1, n - 1)

\* A slice that forgets to cut: the whole list whatever n is.
SliceToUncut(seq, n) == seq

\* seq[:n], negative n counting from the end as Python slices do.
SliceTo(seq, n) ==
    IF n >= 0 THEN SubSeq(seq, 1, IF n < Len(seq) THEN n ELSE Len(seq))
    ELSE SubSeq(seq, 1, IF Len(seq) + n > 0 THEN Len(seq) + n ELSE 0)

(***************************************************************************)
(* aggregate_data                                                          *)
(***************************************************************************)

Total == <<"T", "o", "t", "a", "l">>

\* The accumulators before the first row.
NewAcc ==
    [totals        |-> NewDict,
     series_totals |-> NewDict,
     groups_set    |-> {},
     series_set    |-> {},
     skipped_rows  |-> 0]

\* `=` written for `+=`: the cell keeps the last value only.
AddToTotalsOverwriting(totals, group_value, series_value, value) ==
    DictSet(totals, group_value,
            DictSet(DictGet(totals, group_value, NewDict), series_value, value))

\* totals[group_value][series_value] += value, on a defaultdict of defaultdicts.
AddToTotals(totals, group_value, series_value, value) ==
    LET group_map == DictGet(totals, group_value, NewDict)
    IN  DictSet(totals, group_value,
                DictSet(group_map, series_value, DictGet(group_map, series_value, 0) + value))

\* The loop body without `if not group_value: continue`.
LoopBodyKeepingEmptyGroup(acc, row, cfg) ==
    IF ~row_matches_filter(row, cfg.filter) THEN acc
    ELSE LET raw_group   == Get(row, cfg.groupBy, <<>>)
             group_value == IF cfg.extractYear THEN extract_year(raw_group) ELSE raw_group
         IN  IF cfg.extractYear /\ group_value = None
             THEN [acc EXCEPT !.skipped_rows = @ + 1]
             ELSE LET series_value == IF cfg.seriesBy # ""
                                      THEN Get(row, cfg.seriesBy, Total) ELSE Total
                      value == whole(to_number(Get(row, cfg.valueField, Num(0))))
                  IN  [acc EXCEPT
                          !.groups_set = @ \cup {group_value},
                          !.series_set = @ \cup {series_value},
                          !.totals = AddToTotals(@, group_value, series_value, value),
                          !.series_totals =
                              DictSet(@, series_value, DictGet(@, series_value, 0) + value)]

\* One pass of the loop body over a row.
LoopBody(acc, row, cfg) ==
    IF ~row_matches_filter(row, cfg.filter) THEN acc
    ELSE LET raw_group   == Get(row, cfg.groupBy, <<>>)
             group_value == IF cfg.extractYear THEN extract_year(raw_group) ELSE raw_group
         IN  IF cfg.extractYear /\ group_value = None
             THEN [acc EXCEPT !.skipped_rows = @ + 1]
             ELSE LET series_value == IF cfg.seriesBy # ""
                                      THEN Get(row, cfg.seriesBy, Total) ELSE Total
                      value == whole(to_number(Get(row, cfg.valueField, Num(0))))
                  IN  IF group_value = <<>> THEN acc
                      ELSE [acc EXCEPT
                              !.groups_set = @ \cup {group_value},
                              !.series_set = @ \cup {series_value},
                              !.totals = AddToTotals(@, group_value, series_value, value),
                              !.series_totals =
                                  DictSet(@, series_value, DictGet(@, series_value, 0) + value)]

\* for row in rows: ...
RECURSIVE Accumulate(_, _)
Accumulate(rs, cfg) ==
    IF rs = <<>> THEN NewAcc
    ELSE LoopBody(Accumulate(SubSeq(rs, 1, Len(rs) - 1), cfg), rs[Len(rs)], cfg)

\* The sort key without its minus sign: ascending totals.
PlainValues(d) == [s \in DOMAIN d.val |-> d.val[s]]

\* key=lambda s: -series_totals[s], and key=lambda x: -x[1] on a group's items.
NegValues(d) == [s \in DOMAIN d.val |-> 0 - d.val[s]]

\* A group's pick ranked in insertion order, not by the group's sums.
GroupTopUnranked(group_map, max_series) == Range(SliceTo(group_map.keys, max_series))

\* The series one group contributes under the per-group policy.
GroupTop(group_map, max_series) ==
    Range(SliceTo(sorted(group_map.keys, NegValues(group_map)), max_series))

\* The lists `series_list` can be bound to.
SeriesLists(acc, cfg) ==
    IF cfg.topSeriesPerGroup /\ cfg.maxSeries # 0
    THEN LET top_series ==
                 UNION {GroupTop(acc.totals.val[g], cfg.maxSeries) : g \in DOMAIN acc.totals.val}
         IN  {sorted(order, NegValues(acc.series_totals)) : order \in IterationOrders(top_series)}
    ELSE {SliceTo(sorted(SelectSeq(order,
                                   LAMBDA s : acc.series_totals.val[s] >= cfg.minSeriesTotal),
                         NegValues(acc.series_totals)),
                  cfg.maxSeries) : order \in IterationOrders(acc.series_set)}

\* key=lambda x: int(x)
IntKeys(S) == [x \in S |-> int_literal_value(x)]

\* The position of each str of S in sorted(S): str are totally ordered.
StrKeys(S) == [x \in S |-> Cardinality({y \in S : str_less(y, x)})]

\* The groups sorted as str whatever they are.
GroupListsAsStr(acc) ==
    {sorted(order, StrKeys(acc.groups_set)) : order \in IterationOrders(acc.groups_set)}

\* The lists `groups` can be bound to: int(x) raises ValueError on the first
\* key that is no integer literal, and the except branch sorts the str.
GroupLists(acc) ==
    IF \A x \in acc.groups_set : is_int_literal(x)
    THEN {sorted(order, IntKeys(acc.groups_set)) : order \in IterationOrders(acc.groups_set)}
    ELSE {sorted(order, StrKeys(acc.groups_set)) : order \in IterationOrders(acc.groups_set)}

\* The output data, one entry per group.
BuildData(acc, groups, series_list) ==
    [i \in 1..Len(groups) |->
        [group  |-> groups[i],
         series |-> [s \in Range(series_list) |->
                        DictGet(DictGet(acc.totals, groups[i], NewDict), s, 0)]]]

\* Every value aggregate_data(rows, config) can return.
aggregate_data(rs, cfg) ==
    LET acc == Accumulate(rs, cfg)
    IN  {[groups |-> groups, series |-> series_list,
          data |-> BuildData(acc, groups, series_list)] :
            groups \in GroupLists(acc), series_list \in SeriesLists(acc, cfg)}

(***************************************************************************)
(* Inputs                                                                  *)
(***************************************************************************)

MaxRows == 3

\* maxSeries ranges over -MaxNegSeries .. MaxSeriesCap, minSeriesTotal over
\* {0, MinTotalCap}.
MaxSeriesCap == 2
MaxNegSeries == 1
MinTotalCap == 2

SeqsUpTo(S, n) == UNION {[1..k -> S] : k \in 0..n}

Y202301 == <<"2", "0", "2", "3", "0", "1">>
Y2022   == <<"2", "0", "2", "2">>
Y2023   == <<"2", "0", "2", "3">>
Health  == <<"H", "e", "a">>
Defence == <<"D", "e">>

\* A config of the shape dashboard_configs.json gives, every key present
\* but 'filter' (config.get('filter') is then None, the empty filter here).
Config(extractYear, topSeriesPerGroup, maxSeries, minSeriesTotal, seriesBy, filter) ==
    [groupBy |-> "year", seriesBy |-> seriesBy, valueField |-> "amt",
     extractYear |-> extractYear, minSeriesTotal |-> minSeriesTotal,
     maxSeries |-> maxSeries, topSeriesPerGroup |-> topSeriesPerGroup,
     filter |-> filter]

\* Rows of two periods and two departments, and a row without department.
SelectionRows ==
    {[year |-> Y2022,   dept |-> Health,  amt |-> Str(<<"$", "2">>)],
     [year |-> Y2022,   dept |-> Defence, amt |-> Num(1)],
     [year |-> Y202301, dept |-> Defence, amt |-> Num(1)],
     [year |-> Y202301, dept |-> Health,  amt |-> Num(1)],
     [year |-> Y2022,   amt |-> Str(<<"-", "1">>)]}

SelectionConfigs ==
    {Config(e, p, m, t, "dept", EmptyDict) :
        e \in BOOLEAN, p \in BOOLEAN,
        m \in (0 - MaxNegSeries)..MaxSeriesCap, t \in {0, MinTotalCap}}

NotAYear == <<"N", "/", "A">>
Nine     == <<"9">>
health   == <<"h", "e", "a">>

\* Rows whose keys are missing, empty, not a year or not an integer.
KeyRows ==
    {[year |-> Y202301,  dept |-> Health, amt |-> Num(1)],
     [year |-> Y2022,    dept |-> <<>>,   amt |-> Num(1)],
     [year |-> Nine,     amt |-> Num(1)],
     [year |-> NotAYear, dept |-> Health, amt |-> Num(1)],
     [year |-> <<>>,     dept |-> Health, amt |-> Num(1)],
     [dept |-> Health, amt |-> Num(1)]}

KeyConfigs ==
    {Config(e, p, m, t, "dept", f) :
        e \in BOOLEAN, p \in BOOLEAN, m \in {0, MaxSeriesCap}, t \in {0, MinTotalCap},
        f \in {EmptyDict, [field |-> "dept", include |-> {Health, <<>>}]}}

\* Rows for the row filter: departments that differ in case only, a row
\* without department, a period that is no year.
FilterRows ==
    {[year |-> Y2022,    dept |-> Health,  amt |-> Str(<<"$", "2">>)],
     [year |-> Y2022,    dept |-> health,  amt |-> Num(1)],
     [year |-> Y2022,    dept |-> Defence, amt |-> Num(1)],
     [year |-> NotAYear, dept |-> Defence, amt |-> Str(<<"$", "2">>)],
     [year |-> Y2023,    amt |-> Num(1)]}

Filters ==
    {EmptyDict,
     [field |-> "dept"],
     [field |-> "dept", include |-> {Health}],
     [field |-> "dept", contains |-> {<<"H", "E">>}],
     [field |-> "dept", include |-> {Health, Defence}, contains |-> {<<"A">>, <<"x">>}],
     [field |-> "year", contains |-> {<<"2", "2">>}],
     [field |-> "dept", include |-> {<<>>}]}

FilterConfigs ==
    {Config(e, p, MaxSeriesCap, 0, s, f) :
        e \in BOOLEAN, p \in BOOLEAN, s \in {"dept", ""}, f \in Filters}

EmptyResult == [groups |-> <<>>, series |-> <<>>, data |-> <<>>]

InitOver(RowSet, ConfigSet) ==
    /\ rows \in SeqsUpTo(RowSet, MaxRows)
    /\ config \in ConfigSet
    /\ pc = "start"
    /\ result = EmptyResult
    /\ prev = EmptyResult
    /\ arg = Str(<<>>)
    /\ out = None

Init == InitOver(SelectionRows, SelectionConfigs)

(***************************************************************************)
(* The driver: build_dashboard aggregates the loaded rows of a dashboard;  *)
(* a second run of the build aggregates the same rows under the same       *)
(* config again.                                                           *)
(***************************************************************************)

FirstCall ==
    /\ pc = "start"
    /\ result' \in aggregate_data(rows, config)
    /\ pc' = "once"
    /\ UNCHANGED <<rows, config, prev, arg, out>>

SecondCall ==
    /\ pc = "once"
    /\ prev' = result
    /\ result' \in aggregate_data(rows, config)
    /\ pc' = "twice"
    /\ UNCHANGED <<rows, config, arg, out>>

Next == FirstCall \/ SecondCall

Spec == Init /\ [][Next]_vars

\* The same driver on rows with missing, empty and non-integer keys.
InitKeys == InitOver(KeyRows, KeyConfigs)

SpecKeys == InitKeys /\ [][Next]_vars

\* The same driver under the row filters.
InitFilter == InitOver(FilterRows, FilterConfigs)

SpecFilter == InitFilter /\ [][Next]_vars

(***************************************************************************)
(* What the rows contribute, read off the inputs                           *)
(***************************************************************************)

Called == pc # "start"

\* The group key a row is filed under: None when year extraction fails.
GroupKeyOf(row) ==
    IF config.extractYear THEN extract_year(Get(row, config.groupBy, <<>>))
    ELSE Get(row, config.groupBy, <<>>)

\* The series key a row is filed under.
SeriesKeyOf(row) ==
    IF config.seriesBy # "" THEN Get(row, config.seriesBy, Total) ELSE Total

\* Row i reaches the accumulators.
IsAggregated(i) ==
    /\ row_matches_filter(rows[i], config.filter)
    /\ GroupKeyOf(rows[i]) # None
    /\ GroupKeyOf(rows[i]) # <<>>

\* The positions of the rows that reach the accumulators.
Aggregated == {i \in 1..Len(rows) : IsAggregated(i)}

SeriesKeysSeen == {SeriesKeyOf(rows[i]) : i \in Aggregated}

GroupKeysSeen == {GroupKeyOf(rows[i]) : i \in Aggregated}

(***************************************************************************)
(* C1  series cap                                                          *)
(***************************************************************************)

\* C1, as stated: after a call, under either selection policy, 'series' has at
\* most maxSeries elements.  Stated on the configs with maxSeries >= 0: no
\* list has a negative length, so a negative maxSeries bounds none.
C1_SeriesCapAsStated ==
    (Called /\ config.maxSeries >= 0) => Len(result.series) <= config.maxSeries

\* C1, amended: with maxSeries >= 0, 'series' has at most maxSeries elements
\* under the global policy and at most maxSeries per group, maxSeries *
\* len(groups) in all, under the per-group policy; with maxSeries < 0 it has
\* at most as many elements as there are distinct series keys aggregated, and
\* under the global policy at most that number less |maxSeries|.
C1_SeriesCap ==
    Called =>
        LET n == Len(result.series)
            m == config.maxSeries
            k == Cardinality(SeriesKeysSeen)
        IN  /\ (m >= 0 /\ ~config.topSeriesPerGroup) => n <= m
            /\ (m >= 0 /\ config.topSeriesPerGroup) => n <= m * Len(result.groups)
            /\ m < 0 => n <= k
            /\ (m < 0 /\ ~config.topSeriesPerGroup) => (n <= k + m \/ n = 0)

\* The per-group policy at work: maxSeries = 1, two groups, two series.
C1_Witness ==
    /\ Called
    /\ config.topSeriesPerGroup
    /\ config.maxSeries = 1
    /\ Len(result.series) = 2
    /\ Len(result.groups) = 2

(***************************************************************************)
(* C2  sum conservation and completeness of 'data'                         *)
(***************************************************************************)

\* The sum of the normalised values of the aggregated rows among the first n
\* that are filed under group g and series s.
RECURSIVE CellSum(_, _, _)
CellSum(n, g, s) ==
    IF n = 0 THEN 0
    ELSE CellSum(n - 1, g, s)
         + (IF IsAggregated(n) /\ GroupKeyOf(rows[n]) = g /\ SeriesKeyOf(rows[n]) = s
            THEN whole(to_number(Get(rows[n], config.valueField, Num(0)))) ELSE 0)

\* C2: 'data' has one entry per group of 'groups', in that order; the entry's
\* series map has exactly the keys of 'series'; and each value is the sum of
\* to_number(row[valueField]) over the rows that pass the filter, are not dropped
\* by year extraction and have that group key and series key (0 when none has).
C2_SumConservation ==
    Called =>
        /\ Len(result.data) = Len(result.groups)
        /\ \A i \in 1..Len(result.data) :
              /\ result.data[i].group = result.groups[i]
              /\ DOMAIN result.data[i].series = Range(result.series)
              /\ \A s \in Range(result.series) :
                    result.data[i].series[s] = CellSum(Len(rows), result.groups[i], s)

\* A cell that sums two rows, 1 and "$2", while the filter rejects a third row.
C2_Witness ==
    /\ Called
    /\ \E n \in 1..Len(rows) : ~row_matches_filter(rows[n], config.filter)
    /\ \E i \in 1..Len(result.data) : \E s \in Range(result.series) :
          /\ Cardinality({n \in Aggregated : GroupKeyOf(rows[n]) = result.groups[i]
                                             /\ SeriesKeyOf(rows[n]) = s}) = 2
          /\ result.data[i].series[s] = 3

(***************************************************************************)
(* C3  determinism                                                         *)
(***************************************************************************)

\* C3: two calls on the same rows and the same config return identical results,
\* the order of tied series and the survivor of the maxSeries cut included.
C3_Deterministic == pc = "twice" => result = prev

(***************************************************************************)
(* C4  maxSeries <= 0                                                      *)
(***************************************************************************)

\* C4: under either policy, maxSeries = 0 or negative yields an empty 'series'
\* and an empty series map in every entry of 'data'.
C4_NonPositiveCapIsEmpty ==
    (Called /\ config.maxSeries <= 0) =>
        /\ result.series = <<>>
        /\ \A i \in 1..Len(result.data) : DOMAIN result.data[i].series = {}

(***************************************************************************)
(* C5  missing and empty key fields                                        *)
(***************************************************************************)

\* C5: with seriesBy configured, no empty group key and no empty series key
\* appears in 'groups', 'series' or 'data', and every series key is the value
\* some aggregated row has in its seriesBy field: none is invented for a row
\* that lacks the field.
C5_NoEmptyOrInventedKey ==
    (Called /\ config.seriesBy # "") =>
        LET series_keys == Range(result.series)
                           \cup UNION {DOMAIN result.data[i].series : i \in 1..Len(result.data)}
            group_keys  == Range(result.groups)
                           \cup {result.data[i].group : i \in 1..Len(result.data)}
        IN  /\ <<>> \notin group_keys
            /\ <<>> \notin series_keys
            /\ \A s \in series_keys :
                  \E n \in Aggregated :
                      config.seriesBy \in DOMAIN rows[n] /\ rows[n][config.seriesBy] = s

(***************************************************************************)
(* C6  groups                                                              *)
(***************************************************************************)

\* The group keys the claim names: of the rows that pass the filter, those with
\* a non-empty group value and, under extractYear, an extractable year.
ClaimedGroupKeys ==
    {IF config.extractYear THEN extract_year(rows[n][config.groupBy])
     ELSE rows[n][config.groupBy] :
        n \in {k \in 1..Len(rows) :
                /\ row_matches_filter(rows[k], config.filter)
                /\ config.groupBy \in DOMAIN rows[k]
                /\ rows[k][config.groupBy] # <<>>
                /\ config.extractYear => extract_year(rows[k][config.groupBy]) # None}}

\* C6: 'groups' has no duplicates and holds exactly the claimed group keys,
\* whatever series selection retains; 'data' has the same groups; and a row
\* whose year is not extractable adds no series either.
C6_GroupsExact ==
    Called =>
        /\ \A i, j \in 1..Len(result.groups) : result.groups[i] = result.groups[j] => i = j
        /\ Range(result.groups) = ClaimedGroupKeys
        /\ {result.data[i].group : i \in 1..Len(result.data)} = ClaimedGroupKeys
        /\ Range(result.series) \subseteq SeriesKeysSeen

\* Two groups kept although selection retained no series, beside a row dropped
\* for its year.
C6_Witness ==
    /\ Called
    /\ config.extractYear
    /\ config.maxSeries > 0
    /\ result.series = <<>>
    /\ Len(result.groups) = 2
    /\ \E n \in 1..Len(rows) : GroupKeyOf(rows[n]) = None

(***************************************************************************)
(* C7  global top-N                                                        *)
(***************************************************************************)

\* The grand total of a series over the aggregated rows.
RECURSIVE GrandTotal(_, _)
GrandTotal(n, s) ==
    IF n = 0 THEN 0
    ELSE GrandTotal(n - 1, s)
         + (IF IsAggregated(n) /\ SeriesKeyOf(rows[n]) = s
            THEN whole(to_number(Get(rows[n], config.valueField, Num(0)))) ELSE 0)

SeriesTotal(s) == GrandTotal(Len(rows), s)

Eligible == {s \in SeriesKeysSeen : SeriesTotal(s) >= config.minSeriesTotal}

NoDuplicates(seq) == \A i, j \in 1..Len(seq) : seq[i] = seq[j] => i = j

DescendingByTotal(seq) ==
    LET total == [i \in 1..Len(seq) |-> SeriesTotal(seq[i])]
    IN  \A i, j \in 1..Len(seq) : i < j => total[i] >= total[j]

\* C7: with topSeriesPerGroup false, 'series' lists without repetition series
\* of grand total >= minSeriesTotal, in non-increasing order of grand total; no
\* series left out that meets the threshold has a grand total above a retained
\* one; and with maxSeries >= 0 the list has maxSeries elements, or all that
\* meet the threshold when they are fewer.
C7_GlobalTopN ==
    (Called /\ ~config.topSeriesPerGroup) =>
        /\ NoDuplicates(result.series)
        /\ Range(result.series) \subseteq Eligible
        /\ DescendingByTotal(result.series)
        /\ LET total == [s \in SeriesKeysSeen |-> SeriesTotal(s)]
           IN  \A x \in Eligible \ Range(result.series) : \A s \in Range(result.series) :
                  total[x] <= total[s]
        /\ config.maxSeries >= 0 =>
              Len(result.series) = IF config.maxSeries < Cardinality(Eligible)
                                   THEN config.maxSeries ELSE Cardinality(Eligible)

\* The three steps at work: one series below the threshold, one cut by
\* maxSeries, and the retained one of larger total than the cut one.
C7_Witness ==
    /\ Called
    /\ ~config.topSeriesPerGroup
    /\ config.maxSeries = 1
    /\ Cardinality(SeriesKeysSeen) = 3
    /\ Cardinality(Eligible) = 2
    /\ Len(result.series) = 1
    /\ \E x \in Eligible : SeriesTotal(x) < SeriesTotal(result.series[1])

(***************************************************************************)
(* C8  per-group top-N                                                     *)
(***************************************************************************)

SeriesOfGroup(g) == {SeriesKeyOf(rows[n]) : n \in {k \in Aggregated : GroupKeyOf(rows[k]) = g}}

\* How many elements lst[:maxSeries] has on a list of n.
TopCount(n) ==
    IF config.maxSeries >= 0 THEN (IF config.maxSeries < n THEN config.maxSeries ELSE n)
    ELSE (IF n + config.maxSeries > 0 THEN n + config.maxSeries ELSE 0)

\* The sets that are a top maxSeries of group g by descending per-group sum.
TopSets(g) ==
    LET of_group == SeriesOfGroup(g)
        sum == [s \in of_group |-> CellSum(Len(rows), g, s)]
    IN  {T \in SUBSET of_group :
            /\ Cardinality(T) = TopCount(Cardinality(of_group))
            /\ \A a \in T : \A b \in of_group \ T : sum[a] >= sum[b]}

\* The unions of one top set per group of G.
RECURSIVE UnionsOfTopSets(_)
UnionsOfTopSets(G) ==
    IF G = {} THEN {{}}
    ELSE LET g == CHOOSE x \in G : TRUE
         IN  {T \cup U : T \in TopSets(g), U \in UnionsOfTopSets(G \ {g})}

\* C8: with topSeriesPerGroup true, the retained series are exactly the union
\* over the groups of a top maxSeries of each group by descending per-group
\* sum (for a negative maxSeries: what the slice [:maxSeries] keeps of the
\* group's ranking); the result is also a result under minSeriesTotal 0 and
\* under a minSeriesTotal above every total; and 'series' is in non-increasing
\* order of grand total.
C8_PerGroupTopN ==
    (Called /\ config.topSeriesPerGroup) =>
        /\ NoDuplicates(result.series)
        /\ Range(result.series) \in UnionsOfTopSets(GroupKeysSeen)
        /\ \A t \in {0, MinTotalCap + MaxRows * MinTotalCap} :
              result \in aggregate_data(rows, [config EXCEPT !.minSeriesTotal = t])
        /\ DescendingByTotal(result.series)

\* Two groups whose top series differ, so the union exceeds either pick; the
\* second series is below minSeriesTotal and is retained all the same.
C8_Witness ==
    /\ Called
    /\ config.topSeriesPerGroup
    /\ config.maxSeries = 1
    /\ Len(result.series) = 2
    /\ \E g \in GroupKeysSeen : Cardinality(SeriesOfGroup(g)) = 2
    /\ SeriesTotal(result.series[1]) > SeriesTotal(result.series[2])
    /\ SeriesTotal(result.series[2]) < config.minSeriesTotal

(***************************************************************************)
(* C9  row filter                                                          *)
(***************************************************************************)

\* The filter as the claim words it: the value of the filter field, the empty
\* str when the row lacks it, is one of 'include' when 'include' is present, and
\* contains a member of 'contains', letter case aside, when 'contains' is present.
EqualFoldingCase(a, b) ==
    Len(a) = Len(b) /\ \A j \in 1..Len(a) : lower_char(a[j]) = lower_char(b[j])

ClaimedPass(row) ==
    LET f == config.filter
        value == IF "field" \in DOMAIN f /\ f.field \in DOMAIN row THEN row[f.field] ELSE <<>>
    IN  /\ "include" \in DOMAIN f => \E m \in f.include : m = value
        /\ "contains" \in DOMAIN f =>
              \E m \in f.contains : \E i \in 1..(Len(value) - Len(m) + 1) :
                  EqualFoldingCase(SubSeq(value, i, i + Len(m) - 1), m)

\* C9: the result is a result of aggregating, without filter, the rows that pass
\* the filter as claimed, so that a rejected row adds to no group, series or
\* total; and every series key is the key of a passing row.
C9_FilterDecides ==
    Called =>
        /\ result \in aggregate_data(SelectSeq(rows, ClaimedPass),
                                     [config EXCEPT !.filter = EmptyDict])
        /\ \A s \in Range(result.series) :
              \E n \in 1..Len(rows) : ClaimedPass(rows[n]) /\ SeriesKeyOf(rows[n]) = s

\* Both tests present: a row passes them with a match that differs in case, a row
\* passes 'include' alone and is rejected, and its series is not in the result.
C9_Witness ==
    /\ Called
    /\ "include" \in DOMAIN config.filter
    /\ "contains" \in DOMAIN config.filter
    /\ config.seriesBy = "dept"
    /\ \E n \in Aggregated : rows[n].dept = Health
    /\ \E n \in 1..Len(rows) :
          /\ "dept" \in DOMAIN rows[n]
          /\ rows[n].dept = Defence
          /\ ~ClaimedPass(rows[n])
    /\ Health \in Range(result.series)
    /\ Defence \notin Range(result.series)

(***************************************************************************)
(* C10  order of 'groups'                                                  *)
(***************************************************************************)

\* C10: when every group key is an integer literal 'groups' is in non-decreasing
\* order of integer value, and otherwise, one key that is none sufficing, in
\* strictly increasing order of the str.
C10_GroupOrder ==
    Called =>
        IF \A g \in Range(result.groups) : is_int_literal(g)
        THEN \A i, j \in 1..Len(result.groups) :
                i < j => int_literal_value(result.groups[i]) <= int_literal_value(result.groups[j])
        ELSE \A i, j \in 1..Len(result.groups) :
                i < j => str_less(result.groups[i], result.groups[j])

\* Three integer keys in numeric order, which is not their order as str.
C10_Witness ==
    /\ Called
    /\ result.groups = <<Nine, Y2022, Y202301>>

(***************************************************************************)
(* extract_year on its own: the values a period column can hold            *)
(***************************************************************************)

MaxYearLen == 5

\* Digits that open a year, digits that do not, a separator and a blank.
YearChars == {"0", "1", "2", "9", "-", " "}

Y202312    == <<"2", "0", "2", "3", "1", "2">>
Y2023_2024 == <<"2", "0", "2", "3", "-", "2", "0", "2", "4">>

YearInputs == SeqsUpTo(YearChars, MaxYearLen) \cup {Y202312, Y2023_2024, NotAYear}

\* No rows are read: only `arg` and `out` change.
InitScalar(Values) ==
    /\ rows = <<>>
    /\ config = Config(FALSE, FALSE, 0, 0, "", EmptyDict)
    /\ pc = "start"
    /\ result = EmptyResult
    /\ prev = EmptyResult
    /\ arg \in Values
    /\ out = None

InitYear == InitScalar({Str(s) : s \in YearInputs})

\* group_value = extract_year(group_value)
ExtractYearCall ==
    /\ pc = "start"
    /\ out' = extract_year(arg.s)
    /\ pc' = "once"
    /\ UNCHANGED <<rows, config, result, prev, arg>>

NextYear == ExtractYearCall

SpecYear == InitYear /\ [][NextYear]_vars

\* s is four digits whose value lies in 1900..2099.
IsYearRun(s) ==
    /\ Len(s) = 4
    /\ \A i \in 1..4 : s[i] \in Digits
    /\ digits_value(s) >= 1900
    /\ digits_value(s) <= 2099

\* Where in s a run of four digits with a value in 1900..2099 starts.
YearRunStarts(s) == {i \in 1..(Len(s) - 3) : IsYearRun(SubSeq(s, i, i + 3))}

\* C11: extract_year returns the first run of four digits of the input whose
\* value lies in 1900..2099, returns None exactly when the input has no such
\* run, and every result that is not None is a 4-character substring of the
\* input with a value in that range.
C11_FirstYearRun ==
    Called =>
        LET s      == arg.s
            starts == YearRunStarts(s)
        IN  /\ (out = None) <=> (starts = {})
            /\ starts # {} =>
                   LET first == CHOOSE i \in starts : \A j \in starts : i <= j
                   IN  out = SubSeq(s, first, first + 3)
            /\ out # None => IsYearRun(out) /\ str_contains(s, out)

\* Four digits outside the range come first, the year starts one character on.
C11_Witness ==
    /\ Called
    /\ arg.s = <<"1", "2", "0", "2", "9">>
    /\ out = <<"2", "0", "2", "9">>

(***************************************************************************)
(* to_number on its own: the values a value column can hold                *)
(***************************************************************************)

MaxValueLen == 4

\* Native ints run over -MaxNative .. MaxNative.
MaxNative == 1

\* Digits, the characters to_number removes, a tab, the point and the sign,
\* and the letters of nan and inf.
ValueChars == {"0", "1", "$", ",", " ", "\t", ".", "-", "n", "a", "i", "f"}

Dollars == <<"$", "1", ",", "2", "3", "4", ".", "5", "0">>
Abc     == <<"a", "b", "c">>

NumberInputs ==
    {Str(s) : s \in SeqsUpTo(ValueChars, MaxValueLen) \cup {Dollars, Abc}}
        \cup {Num(n) : n \in (0 - MaxNative)..MaxNative}
        \cup {NoneValue, FloatNaN, FloatInf(1), FloatInf(0 - 1), HugeInt(1), HugeInt(0 - 1)}

InitNumber == InitScalar(NumberInputs)

\* value = to_number(row.get(value_field, 0)); `out` is what the call
\* returned, or the exception it raised.
ToNumberCall ==
    /\ pc = "start"
    /\ out' = to_number(arg)
    /\ pc' = "once"
    /\ UNCHANGED <<rows, config, result, prev, arg>>

NextNumber == ToNumberCall

SpecNumber == InitNumber /\ [][NextNumber]_vars

\* s is a decimal literal: an optional sign, digits with at most one point,
\* at least one digit.
IsDecimalLiteral(s) ==
    LET u    == IF s # <<>> /\ Head(s) \in {"+", "-"} THEN Tail(s) ELSE s
        mant == remove_char(u, ".")
    IN  /\ Len(u) - Len(mant) <= 1
        /\ mant # <<>>
        /\ \A i \in 1..Len(mant) : mant[i] \in Digits

\* C12: to_number never fails and always returns a finite number: a native
\* number comes back unchanged as a float; None, the empty str and 0 give 0.0;
\* a str is parsed after removing '$', ',' and whitespace, and gives 0.0
\* whenever what remains is not a numeric literal.
C12_AlwaysFiniteNumber ==
    Called =>
        /\ out.k \notin {"ValueError", "OverflowError"}
        /\ out.k = "fin"
        /\ arg.t = "num" => out = Fin(arg.n, 0)
        /\ arg.t = "none" \/ arg = Str(<<>>) \/ arg = Num(0) => out = Fin(0, 0)
        /\ arg.t = "str" /\ arg.s # <<>> =>
               LET rest == SelectSeq(arg.s, LAMBDA c : c \notin {"$", ","} \cup Whitespace)
               IN  IF IsDecimalLiteral(rest) THEN out = float(rest) ELSE out = Fin(0, 0)

(***************************************************************************)
(* Empty input and empty result                                            *)
(***************************************************************************)

\* C13: what aggregate_data returns for rows none of which reaches the
\* accumulators (each is rejected by the filter or dropped for its group key)
\* is not what it returns for no rows at all.
C13_EmptyInputDistinct ==
    (Called /\ rows # <<>> /\ Aggregated = {}) =>
        result \notin aggregate_data(<<>>, config)

(***************************************************************************)
(* src/update_data.py: extract_year, row_matches_mapping, aggregate_data.  *)
(* Its to_number is that of build_dashboards.py line for line, and so is   *)
(* aggregate_data from the choice of the series to the return.             *)
(***************************************************************************)

Unknown == <<"U", "n", "k", "n", "o", "w", "n">>

\* extract_year of update_data.py: the first four digits found, else the
\* stripped value itself; "Unknown" for an empty value.
update_extract_year(value) ==
    IF value = <<>> THEN Unknown
    ELSE LET hits == {i \in 1..Len(value) : digits4_match_at(value, i)}
         IN  IF hits # {}
             THEN LET i == CHOOSE k \in hits : \A m \in hits : k <= m
                  IN  SubSeq(value, i, i + 3)
             ELSE strip(value)

\* A mapping that rejects no row.
row_matches_mapping_any(row, mapping) == TRUE

row_matches_mapping(row, mapping) ==
    IF mapping = EmptyDict THEN TRUE
    ELSE LET field == Get(mapping, "field", "")
             value == Get(row, field, <<>>)
         IN  /\ "include" \in DOMAIN mapping => value \in mapping["include"]
             /\ "includeContains" \in DOMAIN mapping =>
                    \E item \in mapping["includeContains"] :
                        str_contains(lower(value), lower(item))

\* One pass of the loop body of update_data.py over a row.
update_LoopBody(acc, row, cfg, mapping) ==
    IF ~row_matches_mapping(row, mapping) THEN acc
    ELSE LET raw_group    == Get(row, cfg.groupBy, <<>>)
             group_value  == IF cfg.extractYear THEN update_extract_year(raw_group)
                             ELSE raw_group
             series_value == IF cfg.seriesBy # ""
                             THEN Get(row, cfg.seriesBy, Total) ELSE Total
             value == whole(to_number(Get(row, cfg.valueField, Num(0))))
         IN  IF group_value = <<>> THEN acc
             ELSE [acc EXCEPT
                     !.groups_set = @ \cup {group_value},
                     !.series_set = @ \cup {series_value},
                     !.totals = AddToTotals(@, group_value, series_value, value),
                     !.series_totals =
                         DictSet(@, series_value, DictGet(@, series_value, 0) + value)]

RECURSIVE update_Accumulate(_, _, _)
update_Accumulate(rs, cfg, mapping) ==
    IF rs = <<>> THEN NewAcc
    ELSE update_LoopBody(update_Accumulate(SubSeq(rs, 1, Len(rs) - 1), cfg, mapping),
                         rs[Len(rs)], cfg, mapping)

\* Every value aggregate_data(rows, config, mapping) of update_data.py can return.
update_aggregate_data(rs, cfg, mapping) ==
    LET acc == update_Accumulate(rs, cfg, mapping)
    IN  {[groups |-> groups, series |-> series_list,
          data |-> BuildData(acc, groups, series_list)] :
            groups \in GroupLists(acc), series_list \in SeriesLists(acc, cfg)}

\* Rows for the two implementations: a period that is no year, one that
\* is empty, one that is missing, departments that differ in case.
MappingRows ==
    {[year |-> Y2022,    dept |-> Health,  amt |-> Num(1)],
     [year |-> Y2022,    dept |-> Defence, amt |-> Str(<<"$", "2">>)],
     [year |-> NotAYear, dept |-> Health,  amt |-> Num(1)],
     [year |-> <<>>,     dept |-> Health,  amt |-> Num(1)],
     [dept |-> health,   amt |-> Num(1)]}

MappingFilters ==
    {EmptyDict,
     [field |-> "dept", include |-> {Health}],
     [field |-> "dept", contains |-> {<<"H", "E">>}],
     [field |-> "dept", include |-> {Health, Defence}, contains |-> {<<"e", "a">>}]}

MappingConfigs ==
    {Config(e, p, MaxSeriesCap, 0, "dept", f) :
        e \in BOOLEAN, p \in BOOLEAN, f \in MappingFilters}

\* The same driver on the rows and filters above.
InitMapping == InitOver(MappingRows, MappingConfigs)

SpecMapping == InitMapping /\ [][Next]_vars

\* The mapping that says what a filter says: 'contains' under the name
\* 'includeContains', the other keys as they are.
AsMapping(f) ==
    [k \in (DOMAIN f \ {"contains"})
            \cup (IF "contains" \in DOMAIN f THEN {"includeContains"} ELSE {}) |->
        IF k = "includeContains" THEN f["contains"] ELSE f[k]]

\* The two extract_year agree on the group value of every row.
YearExtractionAgrees ==
    \A n \in 1..Len(rows) :
        LET g == Get(rows[n], config.groupBy, <<>>)
        IN  update_extract_year(g) = extract_year(g)

\* C14: without extractYear and with a filter of 'field' and 'include' only,
\* aggregate_data of update_data.py, given the filter as its mapping, and
\* aggregate_data of build_dashboards.py can return the same results: the
\* same groups, series and data.  Year extraction and the name of the
\* substring key are the only differences: where the two extract_year agree
\* on every row, and 'contains' is handed over as 'includeContains', the
\* results are the same as well.
C14_SameAsUpdateData ==
    Called =>
        /\ (~config.extractYear /\ DOMAIN config.filter \subseteq {"field", "include"}) =>
               update_aggregate_data(rows, config, config.filter)
                   = aggregate_data(rows, config)
        /\ (config.extractYear => YearExtractionAgrees) =>
               update_aggregate_data(rows, config, AsMapping(config.filter))
                   = aggregate_data(rows, config)

\* A filter of 'field' and 'include' rejects a row and passes another, which
\* is aggregated.
C14_Witness ==
    /\ Called
    /\ ~config.extractYear
    /\ DOMAIN config.filter = {"field", "include"}
    /\ \E n \in 1..Len(rows) : ~row_matches_filter(rows[n], config.filter)
    /\ \E n \in Aggregated : Get(rows[n], "dept", <<>>) = Health
    /\ result.groups # <<>>

====
